---- MODULE Spec2Model ----
(***************************************************************************)
(* convert-memref-to-riscv: the lowering of memref operations to RISC-V    *)
(* instruction sequences (xdsl/backend/riscv/lowering/                     *)
(* convert_memref_to_riscv.py).                                            *)
(*                                                                         *)
(* Two specifications share the rewrite patterns:                          *)
(*   SpecLower  one operation, drawn from bounded sets of buffer types and *)
(*              operands, is lowered by its pattern and the emitted        *)
(*              address arithmetic is evaluated;                           *)
(*   Spec       ConvertMemrefToRiscvPass.apply runs phase by phase over a  *)
(*              module, once or several times.                             *)
(***************************************************************************)
EXTENDS Integers, Sequences, FiniteSets, TLC

VARIABLES
    op,               \* SpecLower: the operation under lowering
    env,              \* SpecLower: run-time values of its operands
    res,              \* SpecLower: what each pattern did to it
    module,           \* Spec: the module body, a sequence of operations
    entry,            \* Spec: the module as it was before the first run
    before,           \* Spec: the module as it was when the current run began
    pc,               \* Spec: "idle", then "done" or "failed" after a run
    contains_malloc,  \* Spec: apply's local of that name
    contains_dealloc, \* Spec: apply's local of that name
    matched,          \* Spec: the operations each walk of the last run rewrote
    failure,          \* Spec: the exception that ended the last run, if any
    runs              \* Spec: runs of apply begun so far

vars == <<op, env, res, module, entry, before, pc, contains_malloc,
          contains_dealloc, matched, failure, runs>>

passVars == <<module, entry, before, pc, contains_malloc, contains_dealloc,
              matched, failure, runs>>

-----------------------------------------------------------------------------
(* Bounds *)

MaxRank == 2
MaxOps == 3
MaxRuns == 2

-----------------------------------------------------------------------------
(* Types *)

\* Python's None, as get_strides() and get_offset() return it for a dynamic
\* stride or offset.
NoneVal == -1

\* memref.Subview.DYNAMIC_INDEX, the entry of static_offsets that stands for a
\* dynamic offset operand (a negative sentinel no static offset equals).
DYNAMIC_INDEX == -2

IntegerType(w) == [kind |-> "int", width |-> w]
FloatType(w) == [kind |-> "float", width |-> w]
IndexType == [kind |-> "index", width |-> 0]

NoneAttr == [kind |-> "none", strides |-> <<>>, offset |-> 0]
StridedLayoutAttr(strides, offset) ==
    [kind |-> "strided", strides |-> strides, offset |-> offset]
AffineMapAttr == [kind |-> "affine_map", strides |-> <<>>, offset |-> 0]

MemRefType(element_type, shape, layout) ==
    [element_type |-> element_type, shape |-> shape, layout |-> layout]

IntRegisterType == [reg |-> "int"]
FloatRegisterType == [reg |-> "float"]

\* register_type_for_type: floats live in float registers, all else in integer
\* registers.
register_type_for_type(t) ==
    IF t.kind = "float" THEN FloatRegisterType ELSE IntRegisterType

Ok(v) == [ok |-> TRUE, err |-> "", val |-> v]
Raise(e) == [ok |-> FALSE, err |-> e, val |-> 0]

bitwidth_of_type(type_attribute) ==
    IF type_attribute.kind = "float" THEN Ok(type_attribute.width)
    ELSE IF type_attribute.kind = "int" THEN Ok(type_attribute.width)
    ELSE Raise("NotImplementedError")

element_size_for_type(type_attribute) ==
    LET bitwidth == bitwidth_of_type(type_attribute) IN
    IF ~bitwidth.ok THEN bitwidth
    ELSE IF bitwidth.val % 8 # 0 THEN Raise("DiagnosticException: size")
    ELSE Ok(bitwidth.val \div 8)

RECURSIVE prod(_)
prod(s) == IF s = <<>> THEN 1 ELSE Head(s) * prod(Tail(s))

\* ShapedType.strides_for_shape: row-major strides, the last one 1.
strides_for_shape(shape) ==
    [i \in 1..Len(shape) |-> prod(SubSeq(shape, i + 1, Len(shape)))]

-----------------------------------------------------------------------------
(* SSA values and the emitted operations.  A value is named by the role of   *)
(* the operation result or operand it is: Val("addr", k) is the result of    *)
(* the k-th operation of the list get_strided_pointer returns.               *)

Val(s, n) == [src |-> s, n |-> n]
NoVal == Val("none", 0)

Inst(name, a, b, imm, sym) ==
    [op |-> name, a |-> a, b |-> b, imm |-> imm, sym |-> sym]

LiOp(imm) == Inst("riscv.li", NoVal, NoVal, imm, "")
LiLabelOp(label) == Inst("riscv.li", NoVal, NoVal, 0, label)
MulOp(a, b) == Inst("riscv.mul", a, b, 0, "")
AddOp(a, b) == Inst("riscv.add", a, b, 0, "")
AddiOp(a, imm) == Inst("riscv.addi", a, NoVal, imm, "")
MVOp(a, rd) == Inst("riscv.mv", a, NoVal, 0, rd)
CallOp(callee, arg, nres) == Inst("riscv_func.call", arg, NoVal, nres, callee)
MemOp(name, ptr, value) == Inst(name, ptr, value, 0, "")
UnrealizedConversionCastOp(a, ty) ==
    [op |-> "builtin.unrealized_conversion_cast", a |-> a, ty |-> ty]

ArithNames == {"riscv.li", "riscv.mul", "riscv.add", "riscv.addi"}
IsCast(o) == o.op = "builtin.unrealized_conversion_cast"

\* The memref operations the pass recognizes.  ty is the buffer type the
\* operation is about (for a subview, its source type), rty a subview's result
\* type, offs a subview's static_offsets, init a global's initial value
\* ("dense" for a DenseIntOrFPElementsAttr), sym a global's symbol name.
MemrefOp(name, ty, rty, offs, init, sym) ==
    [op |-> name, ty |-> ty, rty |-> rty, offs |-> offs, init |-> init,
     sym |-> sym]

\* What one call of match_and_rewrite did: whether it returned or raised, the
\* operations it had inserted before the matched operation by then, whether it
\* had replaced the matched operation and by what.  index_ops, ops and ptr are
\* the pattern's locals of those names (ops stands for offset_ops, ptr for
\* offset_rd in the subview pattern).
Rewrite(ok, err, inserted, replaced, replacement, index_ops, ops, ptr) ==
    [ok |-> ok, err |-> err, inserted |-> inserted, replaced |-> replaced,
     replacement |-> replacement, index_ops |-> index_ops, ops |-> ops,
     ptr |-> ptr]

Replaced(replacement) ==
    Rewrite(TRUE, "", <<>>, TRUE, replacement, <<>>, <<>>, NoVal)
Raised(err, inserted) ==
    Rewrite(FALSE, err, inserted, FALSE, <<>>, <<>>, <<>>, NoVal)

-----------------------------------------------------------------------------
(* Allocation and deallocation *)

ConvertMemrefAllocOp(o) ==
    LET bitwidth == bitwidth_of_type(o.ty.element_type) IN
    IF ~bitwidth.ok THEN Raised(bitwidth.err, <<>>)
    ELSE
        LET width_in_bytes == bitwidth.val \div 8
            size == prod(o.ty.shape) * width_in_bytes
        IN  Replaced(<< LiOp(size),
                        MVOp(Val("size_op", 0), "a0"),
                        CallOp("malloc", Val("move_op", 0), 1),
                        MVOp(Val("call", 0), ""),
                        UnrealizedConversionCastOp(Val("move_op", 1), o.ty) >>)

ConvertMemrefDeallocOp(o) ==
    Replaced(<< UnrealizedConversionCastOp(Val("memref", 0), IntRegisterType),
                MVOp(Val("ptr", 0), "a0"),
                CallOp("free", Val("move_op", 0), 0) >>)

-----------------------------------------------------------------------------
(* The address computation *)

\* One dimension's contribution, the body of the loop up to the update of
\* head: the operations emitted so far with this dimension's added, and the
\* value (increment) that holds index * stride.
Contribution_always_mul(index, stride, ops) ==
    [ops |-> ops \o << LiOp(stride), MulOp(index, Val("addr", Len(ops) + 1)) >>,
     increment |-> Val("addr", Len(ops) + 2)]

Contribution(index, stride, ops) ==
    IF stride = 1
    THEN [ops |-> ops, increment |-> index]
    ELSE [ops |-> ops \o << LiOp(stride),
                            MulOp(index, Val("addr", Len(ops) + 1)) >>,
          increment |-> Val("addr", Len(ops) + 2)]

\* The loop of get_strided_pointer over zip(indices, strides), from dimension
\* i on, with the operations emitted and the accumulator (head) so far.
RECURSIVE StridedLoop(_, _, _, _, _)
StridedLoop(i, indices, strides, ops, head) ==
    IF i > Len(indices)
    THEN [ok |-> TRUE, err |-> "", ops |-> ops, head |-> head]
    ELSE IF strides[i] = NoneVal
    THEN [ok |-> FALSE, err |-> "DiagnosticException: dynamic stride",
          ops |-> ops, head |-> head]
    ELSE
        LET c == Contribution(indices[i], strides[i], ops) IN
        IF head = NoVal
        THEN StridedLoop(i + 1, indices, strides, c.ops, c.increment)
        ELSE StridedLoop(i + 1, indices, strides,
                         Append(c.ops, AddOp(head, c.increment)),
                         Val("addr", Len(c.ops) + 1))

\* The end of get_strided_pointer: the accumulated element offset becomes a
\* byte offset and is added to the pointer, unless there was no dimension.
ScaledPointer_unscaled(src_ptr, head, ops, bytes_per_element) ==
    IF head = NoVal
    THEN [ok |-> TRUE, err |-> "", ops |-> ops, ptr |-> src_ptr]
    ELSE [ok |-> TRUE, err |-> "",
          ops |-> ops \o
                  << LiOp(bytes_per_element),
                     MulOp(head, Val("addr", Len(ops) + 1)),
                     AddOp(src_ptr, head) >>,
          ptr |-> Val("addr", Len(ops) + 3)]

ScaledPointer(src_ptr, head, ops, bytes_per_element) ==
    IF head = NoVal
    THEN [ok |-> TRUE, err |-> "", ops |-> ops, ptr |-> src_ptr]
    ELSE [ok |-> TRUE, err |-> "",
          ops |-> ops \o
                  << LiOp(bytes_per_element),
                     MulOp(head, Val("addr", Len(ops) + 1)),
                     AddOp(src_ptr, Val("addr", Len(ops) + 2)) >>,
          ptr |-> Val("addr", Len(ops) + 3)]

get_strided_pointer(src_ptr, indices, memref_type) ==
    LET bytes_per_element == element_size_for_type(memref_type.element_type)
        layout == memref_type.layout
        failed(e) == [ok |-> FALSE, err |-> e, ops |-> <<>>, ptr |-> NoVal]
    IN
    IF ~bytes_per_element.ok THEN failed(bytes_per_element.err)
    ELSE IF layout.kind \notin {"none", "strided"}
    THEN failed("DiagnosticException: layout")
    ELSE
        LET strides == IF layout.kind = "none"
                       THEN strides_for_shape(memref_type.shape)
                       ELSE layout.strides
        IN
        IF Len(indices) # Len(strides) THEN failed("ValueError")
        ELSE
            LET loop == StridedLoop(1, indices, strides, <<>>, NoVal) IN
            IF ~loop.ok THEN failed(loop.err)
            ELSE ScaledPointer(src_ptr, loop.head, loop.ops,
                               bytes_per_element.val)

-----------------------------------------------------------------------------
(* Load and store *)

\* cast_operands_to_regs: one cast to a register per operand of the matched
\* operation, inserted before it; the cast of the operand in role r is the
\* value Val(r, k).
cast_operands_to_regs(operands, element_type) ==
    [i \in 1..Len(operands) |->
        UnrealizedConversionCastOp(
            Val("operand", i),
            IF operands[i].src = "value"
            THEN register_type_for_type(element_type)
            ELSE IntRegisterType)]

IndexValues(n) == [i \in 1..n |-> Val("index", i)]

ConvertMemrefStoreOp(o) ==
    LET memref_type == o.ty
        value == Val("value", 0)
        mem == Val("mem", 0)
        indices == IndexValues(Len(memref_type.shape))
        casts == cast_operands_to_regs(<<value, mem>> \o indices,
                                       memref_type.element_type)
        sp == get_strided_pointer(mem, indices, memref_type)
        value_type == register_type_for_type(memref_type.element_type)
        float_type == memref_type.element_type
        done(name) ==
            Rewrite(TRUE, "", casts \o sp.ops, TRUE,
                    << MemOp(name, sp.ptr, value) >>, <<>>, sp.ops, sp.ptr)
    IN
    IF ~sp.ok THEN Raised(sp.err, casts)
    ELSE IF value_type = IntRegisterType THEN done("riscv.sw")
    ELSE IF float_type.width = 32 THEN done("riscv.fsw")
    ELSE IF float_type.width = 64 THEN done("riscv.fsd")
    ELSE Raised("AssertionError", casts \o sp.ops)

ConvertMemrefLoadOp(o) ==
    LET memref_type == o.ty
        mem == Val("mem", 0)
        indices == IndexValues(Len(memref_type.shape))
        casts == cast_operands_to_regs(<<mem>> \o indices,
                                       memref_type.element_type)
        sp == get_strided_pointer(mem, indices, memref_type)
        result_register_type ==
            register_type_for_type(memref_type.element_type)
        float_type == memref_type.element_type
        done(name) ==
            Rewrite(TRUE, "", casts \o sp.ops, TRUE,
                    << MemOp(name, sp.ptr, NoVal),
                       UnrealizedConversionCastOp(Val("lw", 0),
                                                  memref_type.element_type) >>,
                    <<>>, sp.ops, sp.ptr)
    IN
    IF ~sp.ok THEN Raised(sp.err, casts)
    ELSE IF result_register_type = IntRegisterType THEN done("riscv.lw")
    ELSE IF float_type.width = 32 THEN done("riscv.flw")
    ELSE IF float_type.width = 64 THEN done("riscv.fld")
    ELSE Raised("AssertionError", casts \o sp.ops)

-----------------------------------------------------------------------------
(* Globals *)

\* The number of words ptr.int32.get_list reads for the .word directive.
WordCount == 42

AssemblySectionOp(directive, body) ==
    [op |-> "riscv.assembly_section", sym |-> directive, body |-> body]
LabelOp(label) == Inst("riscv.label", NoVal, NoVal, 0, label)
DirectiveOp(directive, nwords) ==
    Inst("riscv.directive", NoVal, NoVal, nwords, directive)

ConvertMemrefGlobalOp_section_first(o) ==
    LET element_type == o.ty.element_type
        section == AssemblySectionOp(".data",
                       << LabelOp(o.sym), DirectiveOp(".word", WordCount) >>)
    IN
    IF o.init # "dense"
    THEN Rewrite(FALSE, "DiagnosticException: initial value", <<>>, TRUE,
                 <<section>>, <<>>, <<>>, NoVal)
    ELSE IF \/ element_type.kind = "int" /\ element_type.width = 32
            \/ element_type.kind = "float" /\ element_type.width = 32
            \/ element_type.kind = "float" /\ element_type.width = 64
    THEN Replaced(<<section>>)
    ELSE Rewrite(FALSE, "DiagnosticException: element type", <<>>, TRUE,
                 <<section>>, <<>>, <<>>, NoVal)

ConvertMemrefGlobalOp(o) ==
    LET element_type == o.ty.element_type IN
    IF o.init # "dense"
    THEN Raised("DiagnosticException: initial value", <<>>)
    ELSE IF \/ element_type.kind = "int" /\ element_type.width = 32
            \/ element_type.kind = "float" /\ element_type.width = 32
            \/ element_type.kind = "float" /\ element_type.width = 64
    THEN Replaced(<< AssemblySectionOp(".data",
                        << LabelOp(o.sym),
                           DirectiveOp(".word", WordCount) >>) >>)
    ELSE Raised("DiagnosticException: element type", <<>>)

ConvertMemrefGetGlobalOp(o) ==
    Replaced(<< LiLabelOp(o.sym),
                UnrealizedConversionCastOp(Val("ptr", 0), o.ty) >>)

-----------------------------------------------------------------------------
(* Subview *)

\* dynamic_offset_index when the loop over static_offsets reaches dimension i:
\* the number of dynamic entries before it.
DynamicOffsetIndex(offs, i) ==
    Cardinality({j \in 1..(i - 1) : offs[j] = DYNAMIC_INDEX})

ConvertMemrefSubviewOp(o) ==
    LET source == Val("source", 0)
        source_type == o.ty
        result_type == o.rty
        result_layout_attr == result_type.layout
        retype == Replaced(<< UnrealizedConversionCastOp(source, result_type) >>)
        offset == result_layout_attr.offset
        factor == element_size_for_type(result_type.element_type)
        src == UnrealizedConversionCastOp(source, IntRegisterType)
        src_rd == Val("src_rd", 0)
        index_ops ==
            [i \in 1..Len(o.offs) |->
                IF o.offs[i] = DYNAMIC_INDEX
                THEN UnrealizedConversionCastOp(
                         Val("offsets", DynamicOffsetIndex(o.offs, i) + 1),
                         IntRegisterType)
                ELSE LiOp(o.offs[i])]
        indices == [i \in 1..Len(o.offs) |-> Val("subview_dim_index", i)]
        sp == get_strided_pointer(src_rd, indices, source_type)
        factor_op == AddiOp(src_rd, offset * factor.val)
        finish(iops, offset_ops, offset_rd) ==
            Rewrite(TRUE, "", <<>>, TRUE,
                    <<src>> \o iops \o offset_ops \o
                    << UnrealizedConversionCastOp(offset_rd, result_type) >>,
                    iops, offset_ops, offset_rd)
    IN
    IF result_layout_attr.kind = "none" THEN retype
    ELSE IF result_layout_attr.kind # "strided"
    THEN Raised("DiagnosticException: layout", <<>>)
    ELSE IF ~factor.ok THEN Raised(factor.err, <<>>)
    ELSE IF offset = 0 THEN retype
    ELSE IF offset = NoneVal
    THEN IF ~sp.ok THEN Raised(sp.err, <<>>)
         ELSE finish(index_ops, sp.ops, sp.ptr)
    ELSE finish(<<>>, <<factor_op>>, Val("addr", 1))

-----------------------------------------------------------------------------
(* Evaluation of emitted address arithmetic.  e gives the run-time values of *)
(* the operands: e.mem the pointer the buffer operand holds, e.indices the   *)
(* index operands, e.offsets a subview's dynamic offset operands.  A cast    *)
(* leaves the value as it is.                                                *)

RECURSIVE ValueOf(_, _, _)
ValueOf(v, r, e) ==
    CASE v.src = "addr" ->
            (LET o == r.ops[v.n] IN
             IF o.op = "riscv.li" THEN o.imm
             ELSE IF o.op = "riscv.mul"
             THEN ValueOf(o.a, r, e) * ValueOf(o.b, r, e)
             ELSE IF o.op = "riscv.add"
             THEN ValueOf(o.a, r, e) + ValueOf(o.b, r, e)
             ELSE ValueOf(o.a, r, e) + o.imm)
      [] v.src = "subview_dim_index" ->
            (LET io == r.index_ops[v.n] IN
             IF IsCast(io) THEN ValueOf(io.a, r, e) ELSE io.imm)
      [] v.src = "offsets" -> e.offsets[v.n]
      [] v.src = "index" -> e.indices[v.n]
      [] v.src \in {"mem", "src_rd", "source"} -> e.mem

-----------------------------------------------------------------------------
(* SpecLower: one operation and its lowering *)

ElementTypes ==
    {IntegerType(1), IntegerType(12), IntegerType(32), FloatType(16),
     FloatType(32), FloatType(64), IndexType}
SubviewElementTypes ==
    {IntegerType(1), IntegerType(32), FloatType(64), IndexType}
DimVals == {1, 2, 3}
StrideVals == {0, 1, 3, NoneVal}
OffsetVals == {0, 2, NoneVal}
StaticOffsetVals == {0, 1, 2, DYNAMIC_INDEX}
IndexVals == {0, 1, 2}
BaseVals == {0, 64}
\* The dynamic offset operands of a subview, the k-th for the k-th dynamic
\* dimension; only as many as there are dynamic dimensions are operands.
OffsetOperands == {<<1, 2, 3, 4>>, <<3, 0, 1, 2>>}

Ranks == 0..MaxRank
Shapes(r) == [1..r -> DimVals]
FixedShape(r) == [i \in 1..r |-> 3]
StridedLayouts(r) ==
    {StridedLayoutAttr(s, o) : s \in [1..r -> StrideVals], o \in OffsetVals}

NoEnv == [mem |-> 0, indices |-> <<>>, offsets |-> <<>>]
NoType == MemRefType(IndexType, <<>>, NoneAttr)
Pending == Raised("pending", <<>>)
Done(r) == r.err # "pending"
NoRes == [alloc |-> Pending, load |-> Pending, store |-> Pending,
          subview |-> Pending]

\* The strides and the offset of a source buffer of type ty.
SourceStrides(ty) ==
    IF ty.layout.kind = "none" THEN strides_for_shape(ty.shape)
    ELSE ty.layout.strides
SourceOffset(ty) == ty.layout.offset

RECURSIVE SumProducts(_, _)
SumProducts(xs, ys) ==
    IF xs = <<>> THEN 0
    ELSE Head(xs) * Head(ys) + SumProducts(Tail(xs), Tail(ys))

\* The per-dimension offsets of a subview at run time: the static offset, or
\* the next dynamic offset operand.
SubOffsets(offs, operands) ==
    [i \in 1..Len(offs) |->
        IF offs[i] = DYNAMIC_INDEX
        THEN operands[DynamicOffsetIndex(offs, i) + 1]
        ELSE offs[i]]

\* The offset a valid subview states in its result layout:
\* source_offset + sum(sub_offset#i * source_strides#i), dynamic as soon as
\* one of its terms is.
ResultOffset(ty, offs) ==
    IF \/ SourceOffset(ty) = NoneVal
       \/ \E i \in 1..Len(offs) : offs[i] = DYNAMIC_INDEX
       \/ \E i \in 1..Len(offs) : SourceStrides(ty)[i] = NoneVal
    THEN NoneVal
    ELSE SourceOffset(ty) + SumProducts(offs, SourceStrides(ty))

\* The result layouts of a valid subview: strided with the offset above, or
\* none at all for a view at offset 0 of a buffer without layout.
ResultLayouts(ty, offs) ==
    {StridedLayoutAttr(SourceStrides(ty), ResultOffset(ty, offs))}
    \cup (IF ty.layout.kind = "none" /\ ResultOffset(ty, offs) = 0
          THEN {NoneAttr} ELSE {})

LowerOp(kind, ty, rty, offs) ==
    [kind |-> kind, ty |-> ty, rty |-> rty, offs |-> offs]

InitAlloc ==
    \E e \in ElementTypes, r \in Ranks :
        \E shape \in Shapes(r) :
            /\ op = LowerOp("alloc", MemRefType(e, shape, NoneAttr), NoType, <<>>)
            /\ env = NoEnv

InitAccess ==
    \E e \in ElementTypes, r \in Ranks :
        \E ty \in {MemRefType(e, shape, NoneAttr) : shape \in Shapes(r)}
                  \cup {MemRefType(e, FixedShape(r), l) : l \in StridedLayouts(r)}
                  \cup {MemRefType(e, FixedShape(r), AffineMapAttr)} :
            \E mem \in BaseVals, indices \in [1..r -> IndexVals] :
                /\ op = LowerOp("access", ty, NoType, <<>>)
                /\ env = [mem |-> mem, indices |-> indices, offsets |-> <<>>]

InitSubview ==
    \E e \in SubviewElementTypes, r \in Ranks :
        \E ty \in {MemRefType(e, FixedShape(r), NoneAttr)}
                  \cup {MemRefType(e, FixedShape(r), l) : l \in StridedLayouts(r)} :
            \E offs \in [1..r -> StaticOffsetVals], operands \in OffsetOperands :
                \E l \in ResultLayouts(ty, offs) :
                    /\ op = LowerOp("subview", ty,
                                    MemRefType(e, FixedShape(r), l), offs)
                    /\ env = [mem |-> 64, indices |-> <<>>,
                              offsets |-> SubSeq(operands, 1,
                                  DynamicOffsetIndex(offs, Len(offs) + 1))]

InitLower ==
    /\ InitAlloc \/ InitAccess \/ InitSubview
    /\ res = NoRes
    /\ module = <<>>
    /\ entry = <<>>
    /\ before = <<>>
    /\ pc = "lower"
    /\ contains_malloc = FALSE
    /\ contains_dealloc = FALSE
    /\ matched = << <<>>, <<>>, <<>> >>
    /\ failure = [err |-> "", op |-> Inst("arith.constant", NoVal, NoVal, 0, "")]
    /\ runs = 0

TheOp(name) == MemrefOp(name, op.ty, op.rty, op.offs, "", "")

MatchAlloc ==
    /\ op.kind = "alloc"
    /\ ~Done(res.alloc)
    /\ res' = [res EXCEPT !.alloc = ConvertMemrefAllocOp(TheOp("memref.alloc"))]
    /\ UNCHANGED <<op, env>>
    /\ UNCHANGED passVars

MatchLoad ==
    /\ op.kind = "access"
    /\ ~Done(res.load)
    /\ res' = [res EXCEPT !.load = ConvertMemrefLoadOp(TheOp("memref.load"))]
    /\ UNCHANGED <<op, env>>
    /\ UNCHANGED passVars

MatchStore ==
    /\ op.kind = "access"
    /\ ~Done(res.store)
    /\ res' = [res EXCEPT !.store = ConvertMemrefStoreOp(TheOp("memref.store"))]
    /\ UNCHANGED <<op, env>>
    /\ UNCHANGED passVars

MatchSubview ==
    /\ op.kind = "subview"
    /\ ~Done(res.subview)
    /\ res' = [res EXCEPT
                  !.subview = ConvertMemrefSubviewOp(TheOp("memref.subview"))]
    /\ UNCHANGED <<op, env>>
    /\ UNCHANGED passVars

NextLower == MatchAlloc \/ MatchLoad \/ MatchStore \/ MatchSubview

SpecLower == InitLower /\ [][NextLower]_vars

-----------------------------------------------------------------------------
(* Spec: the pass over a module.  The module is the sequence of all its      *)
(* operations in the order the rewrite walker visits them.                   *)

FuncOp(sym, visibility, nin, nout) ==
    [op |-> "riscv_func.func", sym |-> sym, visibility |-> visibility,
     nin |-> nin, nout |-> nout]
OtherOp == Inst("arith.constant", NoVal, NoVal, 0, "")

MemrefOpNames ==
    {"memref.alloc", "memref.dealloc", "memref.load", "memref.store",
     "memref.global", "memref.get_global", "memref.subview"}
SymbolOpNames == {"riscv_func.func", "memref.global"}

\* op_type_rewrite_pattern: each pattern matches the operations of its type.
ApplyPattern(o) ==
    CASE o.op = "memref.alloc" -> ConvertMemrefAllocOp(o)
      [] o.op = "memref.dealloc" -> ConvertMemrefDeallocOp(o)
      [] o.op = "memref.store" -> ConvertMemrefStoreOp(o)
      [] o.op = "memref.load" -> ConvertMemrefLoadOp(o)
      [] o.op = "memref.global" -> ConvertMemrefGlobalOp(o)
      [] o.op = "memref.get_global" -> ConvertMemrefGetGlobalOp(o)
      [] o.op = "memref.subview" -> ConvertMemrefSubviewOp(o)

NoFailure == [err |-> "", op |-> OtherOp]

\* PatternRewriteWalker(...).rewrite_module: the patterns for the operation
\* names in `names` are applied to every operation they match, from operation
\* i on; log lists the names of the operations rewritten.  A pattern that
\* raises ends the walk, with what it had inserted by then left in place.
\* Rewritten is the walk from the i-th operation on, once its pattern did r.
RECURSIVE Walk(_, _, _, _), Rewritten(_, _, _, _, _)
Rewritten(names, mod, i, log, r) ==
    LET mod1 == SubSeq(mod, 1, i - 1) \o r.inserted
                \o (IF r.replaced THEN r.replacement ELSE << mod[i] >>)
                \o SubSeq(mod, i + 1, Len(mod))
    IN
    IF ~r.ok
    THEN [module |-> mod1, log |-> log,
          failure |-> [err |-> r.err, op |-> mod[i]]]
    ELSE Walk(names, mod1, i + Len(r.inserted) + Len(r.replacement),
              Append(log, mod[i].op))

Walk(names, mod, i, log) ==
    IF i > Len(mod)
    THEN [module |-> mod, log |-> log, failure |-> NoFailure]
    ELSE IF mod[i].op \notin names THEN Walk(names, mod, i + 1, log)
    ELSE Rewritten(names, mod, i, log, ApplyPattern(mod[i]))

rewrite_module(names, mod) == Walk(names, mod, 1, <<>>)

\* SymbolTable.insert_or_update: the symbol of that name is replaced where it
\* is, or the operation is added to the module when there is none.
insert_or_update(mod, func_op) ==
    IF \E i \in 1..Len(mod) :
          mod[i].op \in SymbolOpNames /\ mod[i].sym = func_op.sym
    THEN [i \in 1..Len(mod) |->
             IF mod[i].op \in SymbolOpNames /\ mod[i].sym = func_op.sym
             THEN func_op ELSE mod[i]]
    ELSE Append(mod, func_op)

\* The end of apply: the declarations of the runtime functions the lowered
\* module calls.
DeclareRuntime_both(mod, has_malloc, has_dealloc) ==
    LET with_malloc ==
            IF has_malloc \/ has_dealloc
            THEN insert_or_update(mod, FuncOp("malloc", "private", 1, 1))
            ELSE mod
    IN  IF has_malloc \/ has_dealloc
        THEN insert_or_update(with_malloc, FuncOp("free", "private", 1, 0))
        ELSE with_malloc

DeclareRuntime_append(mod, has_malloc, has_dealloc) ==
    LET with_malloc ==
            IF has_malloc
            THEN Append(mod, FuncOp("malloc", "private", 1, 1))
            ELSE mod
    IN  IF has_dealloc
        THEN Append(with_malloc, FuncOp("free", "private", 1, 0))
        ELSE with_malloc

DeclareRuntime(mod, has_malloc, has_dealloc) ==
    LET with_malloc ==
            IF has_malloc
            THEN insert_or_update(mod, FuncOp("malloc", "private", 1, 1))
            ELSE mod
    IN  IF has_dealloc
        THEN insert_or_update(with_malloc, FuncOp("free", "private", 1, 0))
        ELSE with_malloc

\* ConvertMemrefToRiscvPass.apply on module mod: the module it leaves, its two
\* locals, the operations each of its three walks rewrote, and the exception
\* that ended it, if one did.  p1, p2 and p3 are what the three walks return.
Result(m, cm, cd, l1, l2, l3, f) ==
    [module |-> m, contains_malloc |-> cm, contains_dealloc |-> cd,
     matched |-> <<l1, l2, l3>>, failure |-> f]

AfterCombined(p1, p2, p3) ==
    IF p3.failure # NoFailure
    THEN Result(p3.module, p1.log # <<>>, p2.log # <<>>, p1.log, p2.log,
                p3.log, p3.failure)
    ELSE Result(DeclareRuntime(p3.module, p1.log # <<>>, p2.log # <<>>),
                p1.log # <<>>, p2.log # <<>>, p1.log, p2.log, p3.log,
                NoFailure)

AfterDealloc(p1, p2) ==
    IF p2.failure # NoFailure
    THEN Result(p2.module, p1.log # <<>>, FALSE, p1.log, p2.log, <<>>,
                p2.failure)
    ELSE AfterCombined(p1, p2,
             rewrite_module({"memref.dealloc", "memref.store", "memref.load",
                             "memref.global", "memref.get_global",
                             "memref.subview"}, p2.module))

AfterAlloc(p1) ==
    IF p1.failure # NoFailure
    THEN Result(p1.module, FALSE, FALSE, p1.log, <<>>, <<>>, p1.failure)
    ELSE AfterDealloc(p1, rewrite_module({"memref.dealloc"}, p1.module))

apply(mod) == AfterAlloc(rewrite_module({"memref.alloc"}, mod))

\* The operations a module is made of at entry.
BufferI32 == MemRefType(IntegerType(32), <<2, 3>>, NoneAttr)
BufferF64 == MemRefType(FloatType(64), <<3>>, StridedLayoutAttr(<<1>>, 0))
BufferI1 == MemRefType(IntegerType(1), <<2>>, NoneAttr)
GlobalOp(element_type, init, sym) ==
    MemrefOp("memref.global", MemRefType(element_type, <<2>>, NoneAttr),
             NoType, <<>>, init, sym)
EntryOps ==
    { MemrefOp("memref.alloc", BufferI32, NoType, <<>>, "", ""),
      MemrefOp("memref.dealloc", BufferI32, NoType, <<>>, "", ""),
      MemrefOp("memref.load", BufferI32, NoType, <<>>, "", ""),
      MemrefOp("memref.store", BufferF64, NoType, <<>>, "", ""),
      MemrefOp("memref.load", BufferI1, NoType, <<>>, "", ""),
      GlobalOp(IntegerType(32), "dense", "g"),
      GlobalOp(IntegerType(16), "dense", "h"),
      GlobalOp(FloatType(16), "dense", "k"),
      GlobalOp(FloatType(32), "opaque", "u"),
      MemrefOp("memref.get_global", BufferI32, NoType, <<>>, "", "g"),
      MemrefOp("memref.subview", BufferI32,
               MemRefType(IntegerType(32), <<1, 3>>,
                          StridedLayoutAttr(<<3, 1>>, 3)),
               <<1, 0>>, "", ""),
      OtherOp,
      FuncOp("malloc", "public", 2, 1),
      FuncOp("free", "private", 1, 0) }

\* No two operations of a module define the same symbol.
UniqueSymbols(mod) ==
    \A i, j \in 1..Len(mod) :
        (i # j /\ mod[i].op \in SymbolOpNames /\ mod[j].op \in SymbolOpNames)
        => mod[i].sym # mod[j].sym

Init ==
    /\ \E n \in 0..MaxOps : \E m \in [1..n -> EntryOps] :
            UniqueSymbols(m) /\ module = m
    /\ entry = module
    /\ before = module
    /\ pc = "idle"
    /\ contains_malloc = FALSE
    /\ contains_dealloc = FALSE
    /\ matched = << <<>>, <<>>, <<>> >>
    /\ failure = NoFailure
    /\ runs = 0
    /\ op = LowerOp("none", NoType, NoType, <<>>)
    /\ env = NoEnv
    /\ res = NoRes

\* The state a run of the pass that returned or raised r leaves.
Applied(r) ==
    /\ module' = r.module
    /\ contains_malloc' = r.contains_malloc
    /\ contains_dealloc' = r.contains_dealloc
    /\ matched' = r.matched
    /\ failure' = r.failure
    /\ pc' = IF r.failure = NoFailure THEN "done" ELSE "failed"

\* One run of the pass; an exception ends the compilation.
Apply ==
    /\ pc \in {"idle", "done"}
    /\ runs < MaxRuns
    /\ Applied(apply(module))
    /\ before' = module
    /\ runs' = runs + 1
    /\ UNCHANGED <<entry, op, env, res>>

Next == Apply

Spec == Init /\ [][Next]_vars

-----------------------------------------------------------------------------
(* Properties of the lowering of one operation *)

Rank == Len(op.ty.shape)
Count(ops, name) == Cardinality({k \in 1..Len(ops) : ops[k].op = name})
StaticStrides(ty) ==
    \A i \in 1..Len(SourceStrides(ty)) : SourceStrides(ty)[i] # NoneVal

\* The value of the pointer a lowering ends with: the one it computed, or the
\* buffer operand's own when it computed none.
PointerOf(r) == IF r.ptr = NoVal THEN env.mem ELSE ValueOf(r.ptr, r, env)

\* The element size in bytes, where element_size_for_type returns one.
ElementSize == element_size_for_type(op.ty.element_type).val

\* C3: the immediate of the first LiOp of allocate lowering is the exact
\* product of the dimension sizes times the element size in bytes (bit width
\* over 8), for every static shape and every element type.
AllocSizeExact ==
    (op.kind = "alloc" /\ Done(res.alloc) /\ res.alloc.ok) =>
        8 * res.alloc.replacement[1].imm
            = prod(op.ty.shape) * bitwidth_of_type(op.ty.element_type).val

\* Whether the lowering in role k computes an element size for this operation:
\* allocate, load and store always, subview when the result has a strided
\* layout.
ComputesElementSize(k) ==
    \/ k = "alloc" /\ op.kind = "alloc"
    \/ k \in {"load", "store"} /\ op.kind = "access"
    \/ k = "subview" /\ op.kind = "subview" /\ op.rty.layout.kind = "strided"

\* C4: an element bit width that is not a multiple of 8 makes every lowering
\* that computes an element size fail, without replacing the operation.
PartialByteWidthFails ==
    \A k \in {"alloc", "load", "store", "subview"} :
        (/\ ComputesElementSize(k)
         /\ Done(res[k])
         /\ bitwidth_of_type(op.ty.element_type).ok
         /\ bitwidth_of_type(op.ty.element_type).val % 8 # 0)
        => (~res[k].ok /\ ~res[k].replaced)

\* C5: for a non-empty index list and static strides, the pointer load and
\* store lowering compute is base + element_size * sum(index_i * stride_i),
\* with one add per dimension after the first plus the final one, and load and
\* store of the same buffer and indices emit the same address sequence.
AddressValue ==
    /\ \A k \in {"load", "store"} :
        (op.kind = "access" /\ Done(res[k]) /\ res[k].ok /\ Rank >= 1) =>
            /\ ValueOf(res[k].ptr, res[k], env)
                   = env.mem + ElementSize
                       * SumProducts(env.indices, SourceStrides(op.ty))
            /\ Count(res[k].ops, "riscv.add") = Rank
            /\ res[k].ops[Len(res[k].ops)].op = "riscv.add"
            /\ res[k].ops[Len(res[k].ops)].a = Val("mem", 0)
    /\ (Done(res.load) /\ Done(res.store) /\ res.load.ok /\ res.store.ok) =>
            /\ res.load.ops = res.store.ops
            /\ res.load.ptr = res.store.ptr

AddressValueWitness ==
    /\ op.kind = "access"
    /\ Rank = 2
    /\ Done(res.load) /\ res.load.ok
    /\ Done(res.store) /\ res.store.ok
    /\ env.mem = 64
    /\ env.indices = <<2, 1>>
    /\ op.ty.layout.kind = "strided"
    /\ op.ty.layout.strides = <<3, 1>>
    /\ op.ty.element_type = FloatType(64)
    /\ ValueOf(res.load.ptr, res.load, env) = 64 + 8 * 7

\* C6: for a rank-0 buffer every lowering emits no index arithmetic and its
\* pointer is the base pointer.
RankZeroDegenerate ==
    \A k \in {"alloc", "load", "store", "subview"} :
        (Rank = 0 /\ Done(res[k]) /\ res[k].ok) =>
            /\ \A i \in 1..Len(res[k].ops) : res[k].ops[i].op \notin ArithNames
            /\ PointerOf(res[k]) = env.mem

\* C7: a subview whose result type has no layout, or a strided layout with
\* static offset 0, is replaced by exactly one cast from the source to the
\* result type, whatever the element type and the strides.
ZeroOffsetSubviewIsCast ==
    (/\ op.kind = "subview"
     /\ Done(res.subview)
     /\ \/ op.rty.layout.kind = "none"
        \/ op.rty.layout.kind = "strided" /\ op.rty.layout.offset = 0)
    => /\ res.subview.ok
       /\ res.subview.inserted = <<>>
       /\ res.subview.replacement
              = << UnrealizedConversionCastOp(Val("source", 0), op.rty) >>

\* C8: for rank >= 1 the address computer emits one multiply per dimension
\* whose stride is not 1 (stride 0 included) and none for a stride of 1, plus
\* the final multiply by the element size.
MultiplyPerNonUnitStride ==
    \A k \in {"load", "store", "subview"} :
        (/\ Done(res[k]) /\ res[k].ok /\ Rank >= 1
         /\ k = "subview" => (op.rty.layout.kind = "strided"
                               /\ op.rty.layout.offset = NoneVal))
        => Count(res[k].ops, "riscv.mul")
              = Cardinality({i \in 1..Rank : SourceStrides(op.ty)[i] # 1}) + 1

MultiplyWitness ==
    /\ op.kind = "access"
    /\ Done(res.load) /\ res.load.ok
    /\ op.ty.layout.kind = "strided"
    /\ op.ty.layout.strides = <<0, 1>>
    /\ Count(res.load.ops, "riscv.mul") = 2

\* C10: for a valid subview of a source with static strides and a nonzero
\* result offset, static or dynamic, the pointer is
\* source_pointer + element_size * sum(sub_offset_i * source_stride_i).
SubviewBranchesAgree ==
    (/\ op.kind = "subview"
     /\ Done(res.subview) /\ res.subview.ok
     /\ op.rty.layout.kind = "strided"
     /\ op.rty.layout.offset # 0
     /\ StaticStrides(op.ty))
    => PointerOf(res.subview)
          = env.mem + ElementSize
              * SumProducts(SubOffsets(op.offs, env.offsets),
                            SourceStrides(op.ty))

-----------------------------------------------------------------------------
(* Properties of the pass *)

HasOp(mod, name) == \E i \in 1..Len(mod) : mod[i].op = name
Declarations(mod, sym) ==
    {i \in 1..Len(mod) : mod[i].op = "riscv_func.func" /\ mod[i].sym = sym}
Functions(mod) == {i \in 1..Len(mod) : mod[i].op = "riscv_func.func"}
Contains(mod, o) == \E i \in 1..Len(mod) : mod[i] = o
Range(seq) == {seq[i] : i \in 1..Len(seq)}

\* C1: after one completed run on a module without malloc and free
\* declarations, the module declares private malloc (one integer in, one out)
\* exactly when it held an allocate at entry, and private free (one integer
\* in, none out) exactly when it held a deallocate; the deallocate rule of the
\* combined walk never fires, and a module with a deallocate and no allocate
\* ends with the one declaration of free.
RuntimeDeclarations ==
    (/\ pc = "done" /\ runs = 1
     /\ Declarations(entry, "malloc") = {}
     /\ Declarations(entry, "free") = {})
    => /\ Contains(module, FuncOp("malloc", "private", 1, 1))
            <=> HasOp(entry, "memref.alloc")
       /\ Declarations(module, "malloc") # {} <=> HasOp(entry, "memref.alloc")
       /\ Contains(module, FuncOp("free", "private", 1, 0))
            <=> HasOp(entry, "memref.dealloc")
       /\ Declarations(module, "free") # {} <=> HasOp(entry, "memref.dealloc")
       /\ "memref.dealloc" \notin Range(matched[3])
       /\ (HasOp(entry, "memref.dealloc") /\ ~HasOp(entry, "memref.alloc"))
            => /\ Cardinality(Functions(module)) = 1
               /\ Declarations(module, "free") = Functions(module)

RuntimeDeclarationsWitness ==
    /\ pc = "done" /\ runs = 1
    /\ HasOp(entry, "memref.dealloc")
    /\ HasOp(entry, "memref.load")
    /\ ~HasOp(entry, "memref.alloc")
    /\ Functions(entry) = {}
    /\ module[Len(module)] = FuncOp("free", "private", 1, 0)
    /\ contains_dealloc /\ ~contains_malloc

\* C2: a run on the output of a completed run rewrites nothing in any of its
\* three walks, leaves the module as it was, and after any number of runs the
\* module holds at most one declaration of malloc and one of free.
SecondRunIdempotent ==
    /\ runs >= 2 =>
          /\ pc = "done"
          /\ matched = << <<>>, <<>>, <<>> >>
          /\ module = before
          /\ ~contains_malloc /\ ~contains_dealloc
    /\ pc = "done" => \A i \in 1..Len(module) : module[i].op \notin MemrefOpNames
    /\ Cardinality(Declarations(module, "malloc")) <= 1
    /\ Cardinality(Declarations(module, "free")) <= 1

SecondRunWitness ==
    /\ runs = 2 /\ pc = "done"
    /\ HasOp(entry, "memref.alloc")
    /\ HasOp(entry, "memref.dealloc")
    /\ Contains(entry, FuncOp("malloc", "public", 2, 1))
    /\ Contains(module, FuncOp("malloc", "private", 1, 1))
    /\ Contains(module, FuncOp("free", "private", 1, 0))

UnsupportedGlobal(o) ==
    /\ o.op = "memref.global"
    /\ \/ o.init # "dense"
       \/ o.ty.element_type \notin
              {IntegerType(32), FloatType(32), FloatType(64)}

\* C9: a global whose element type is not a 32-bit integer, a 32-bit float or
\* a 64-bit float, or whose initial value is not dense, makes the pass fail
\* with the diagnostic for it; the global is then still in the module, and no
\* data section, label or directive was made for it.
UnsupportedGlobalFails ==
    /\ pc = "done" =>
          \A i \in 1..Len(before) : ~UnsupportedGlobal(before[i])
    /\ (pc = "failed" /\ failure.op.op = "memref.global") =>
          /\ UnsupportedGlobal(failure.op)
          /\ failure.err \in {"DiagnosticException: initial value",
                               "DiagnosticException: element type"}
          /\ Contains(module, failure.op)
          /\ Count(module, "riscv.assembly_section")
                + Count(module, "memref.global")
                = Count(before, "memref.global")
          /\ ~HasOp(module, "riscv.label")
          /\ ~HasOp(module, "riscv.directive")
          /\ \A i \in 1..Len(module) :
                module[i].op = "riscv.assembly_section"
                => module[i].body[1].sym # failure.op.sym

UnsupportedGlobalWitness ==
    /\ pc = "failed"
    /\ failure.op = GlobalOp(IntegerType(16), "dense", "h")
    /\ failure.err = "DiagnosticException: element type"
    /\ HasOp(module, "riscv.assembly_section")
    /\ Contains(module, GlobalOp(IntegerType(16), "dense", "h"))

====
